---------------------------- MODULE Spec2Model ----------------------------
(***************************************************************************)
(* A model of ai-code-agent: the key rotator, the retrying query engine,   *)
(* the two-stage prompt chains (src/src/llm.rs), the report budgeter       *)
(* (src/src/external.rs) and the tool handlers that drive them             *)
(* (src/src/server.rs).                                                    *)
(***************************************************************************)
EXTENDS Integers, Sequences, FiniteSets, TLC

(***************************************************************************)
(* Bounds of the model.                                                    *)
(***************************************************************************)
\* Concurrent tool requests (chains) in flight.
NumChains == 2
\* Largest credential pool of the rotator harness.
MaxKeys == 3
\* Largest credential pool of the chain specification.
MaxPool == 2
\* Longest raw report, in Unicode scalar values, of the budgeter's inputs.
MaxReportLen == 3
\* Largest configured character limit.
MaxLimit == 3
\* get_next_api_key() calls of the rotator harness.
MaxCalls == 6
\* Longest GEMINI_API_KEYS value, in pieces (commas, blanks, words).
MaxEnvLen == 3
\* get_next_api_key() calls made after start-up in the start-up specification.
MaxBootCalls == 2

Chains == 1..NumChains

Min(S) == CHOOSE x \in S : \A y \in S : x <= y

None == [none |-> TRUE]

(***************************************************************************)
(* Text.  A Rust String is a sequence of UTF-8 bytes; a scalar value is a  *)
(* code point.                                                             *)
(***************************************************************************)
\* The scalar values reports are drawn from: 'a' (1 byte), U+00E9 (2 bytes),
\* U+20AC (3 bytes), U+1F600 (4 bytes).
Alphabet == {97, 233, 8364, 128512}

\* UTF-8 encoding of one scalar value.
EncodeChar(cp) ==
    IF cp < 128 THEN <<cp>>
    ELSE IF cp < 2048 THEN <<192 + (cp \div 64), 128 + (cp % 64)>>
    ELSE IF cp < 65536 THEN
        <<224 + (cp \div 4096), 128 + ((cp \div 64) % 64), 128 + (cp % 64)>>
    ELSE <<240 + (cp \div 262144), 128 + ((cp \div 4096) % 64),
           128 + ((cp \div 64) % 64), 128 + (cp % 64)>>

RECURSIVE Encode(_)
\* UTF-8 encoding of a sequence of scalar values.
Encode(chars) ==
    IF chars = <<>> THEN <<>>
    ELSE EncodeChar(Head(chars)) \o Encode(Tail(chars))

\* A byte that is not a UTF-8 continuation byte starts a character.
IsCharStart(b) == b < 128 \/ b >= 192

\* str::is_char_boundary: 0, the length, or the index of a character's first byte.
IsCharBoundary(s, idx) ==
    \/ idx = 0
    \/ idx = Len(s)
    \/ idx < Len(s) /\ IsCharStart(s[idx + 1])

\* str::char_indices: the byte offsets (from 0) at which the characters start.
CharIndices(s) ==
    LET starts == {i \in 1..Len(s) : IsCharStart(s[i])}
        Rank(i) == Cardinality({j \in starts : j < i})
    IN  [n \in 1..Cardinality(starts) |->
            (CHOOSE i \in starts : Rank(i) = n - 1) - 1]

\* A plausible slip: the n-th element is counted from 1.
NthFromOne(seq, n) ==
    IF n >= 1 /\ n <= Len(seq) THEN [some |-> seq[n]] ELSE None

\* Iterator::nth(n), n counted from 0.
Nth(seq, n) == IF n < Len(seq) THEN [some |-> seq[n + 1]] ELSE None

\* Number of scalar values of a string (str::chars().count()).
CharCount(s) == Len(CharIndices(s))

\* "\n\n--- REPORT TRUNCATED DUE TO TOKEN LIMIT ---"
TruncationMarker ==
    << 10, 10, 45, 45, 45, 32, 82, 69, 80, 79, 82, 84, 32, 84, 82, 85, 78,
       67, 65, 84, 69, 68, 32, 68, 85, 69, 32, 84, 79, 32, 84, 79, 75, 69,
       78, 32, 76, 73, 77, 73, 84, 32, 45, 45, 45 >>

\* A plausible slip: the string is left at its full length.
TruncateKeepsAll(s, new_len) == [panic |-> FALSE, s |-> s]

\* String::truncate(new_len): panics unless new_len is a char boundary.
Truncate(s, new_len) ==
    IF new_len > Len(s) THEN [panic |-> FALSE, s |-> s]
    ELSE IF ~IsCharBoundary(s, new_len) THEN [panic |-> TRUE, s |-> s]
    ELSE [panic |-> FALSE, s |-> SubSeq(s, 1, new_len)]

\* A plausible slip: the cut is made at byte `limit`.
BudgetByteCut(report, token_char_limit) ==
    IF Len(report) > token_char_limit
    THEN LET t == Truncate(report, token_char_limit)
         IN  [panic |-> t.panic,
              s |-> IF t.panic THEN t.s ELSE t.s \o TruncationMarker]
    ELSE [panic |-> FALSE, s |-> report]

\* The budgeting tail of generate_codebase_report.
Budget(report, token_char_limit) ==
    IF Len(report) > token_char_limit
    THEN LET at == Nth(CharIndices(report), token_char_limit)
         IN  IF at # None
             THEN LET t == Truncate(report, at.some)
                  IN  [panic |-> t.panic,
                       s |-> IF t.panic THEN t.s ELSE t.s \o TruncationMarker]
             ELSE [panic |-> FALSE, s |-> report]
    ELSE [panic |-> FALSE, s |-> report]

RECURSIVE CharSeqs(_)
\* All sequences of at most n scalar values of the alphabet.
CharSeqs(n) ==
    IF n = 0 THEN {<<>>}
    ELSE LET shorter == CharSeqs(n - 1)
         IN  shorter \cup {Append(s, a) : s \in shorter, a \in Alphabet}


(***************************************************************************)
(* Prompt templates.  format!() writes the template's literal pieces and   *)
(* its arguments in template order; a text built by it is kept as the      *)
(* sequence of those pieces: [lit |-> ...] for a literal of the source,    *)
(* [arg |-> s] for an interpolated string s.                               *)
(***************************************************************************)
Lit(s) == [lit |-> s]
Arg(s) == [arg |-> s]

\* Whether the interpolated string s occurs in the formatted text.
Contains(text, s) ==
    \E i \in 1..Len(text) : "arg" \in DOMAIN text[i] /\ text[i].arg = s

Kinds == {"feature", "bug_fix", "explanation"}

\* system_prompt_1 of each chain (its opening sentence stands for the literal).
SystemPrompt1(k) ==
    CASE k = "feature" ->
           <<Lit("You are a senior software architect with expertise in modern software design patterns and best practices.")>>
      [] k = "bug_fix" ->
           <<Lit("You are a senior software developer specializing in debugging and root cause analysis.")>>
      [] k = "explanation" ->
           <<Lit("You are a principal engineer with expertise in code architecture and system design.")>>

\* system_prompt_2 of each chain (its opening sentence stands for the literal).
SystemPrompt2(k) ==
    CASE k = "feature" ->
           <<Lit("You are a senior software engineer creating a detailed implementation guide.")>>
      [] k = "bug_fix" ->
           <<Lit("You are a senior software engineer implementing bug fixes.")>>
      [] k = "explanation" ->
           <<Lit("You are a principal engineer providing technical documentation and mentorship.")>>

\* user_prompt_1 of each chain.
UserPrompt1(k, context, prompt) ==
    CASE k = "feature" ->
           <<Lit("Codebase Report:\n"), Arg(context),
             Lit("\n\nFeature Request: "), Arg(prompt)>>
      [] k = "bug_fix" ->
           <<Lit("Codebase Report:\n"), Arg(context),
             Lit("\n\nBug Description: "), Arg(prompt)>>
      [] k = "explanation" ->
           <<Lit("Codebase Report:\n"), Arg(context),
             Lit("\n\nQuery: "), Arg(prompt)>>

\* A plausible slip: stage 2 is sent without stage 1's output.
UserPrompt2Ungrounded(k, context, prompt, out1) ==
    UserPrompt1(k, context, prompt)

\* user_prompt_2 of each chain.
UserPrompt2(k, context, prompt, out1) ==
    CASE k = "feature" ->
           <<Lit("Codebase Report:\n"), Arg(context),
             Lit("\n\nOriginal Feature Request: "), Arg(prompt),
             Lit("\n\nHigh-Level Plan:\n"), Arg(out1),
             Lit("\n\nNow provide the detailed implementation plan with specific file paths, code snippets, and clear instructions/explanations.")>>
      [] k = "bug_fix" ->
           <<Lit("Codebase Report:\n"), Arg(context),
             Lit("\n\nBug Description: "), Arg(prompt),
             Lit("\n\nRoot Cause Analysis:\n"), Arg(out1),
             Lit("\n\nNow provide the detailed fix implementation plan with specific file paths and code changes.")>>
      [] k = "explanation" ->
           <<Lit("Codebase Report:\n"), Arg(context),
             Lit("\n\nOriginal Query: "), Arg(prompt),
             Lit("\n\nKey Components Identified:\n"), Arg(out1),
             Lit("\n\nNow provide a comprehensive technical explanation with code examples and clear structure.")>>

(***************************************************************************)
(* The environment's values.                                               *)
(***************************************************************************)
\* Completion texts the provider may return: "A" and "B".
TextA == <<65>>
TextB == <<66>>
Texts == {TextA, TextB}

\* Request texts of a tool call: "p".
Prompts == {<<112>>}

\* Credentials.
KeyName(i) == CASE i = 1 -> "k1" [] i = 2 -> "k2" [] i = 3 -> "k3"
                [] i = 4 -> "k4" [] OTHER -> "k5"
NoKey == "-"

\* The pool [k1, ..., kn].
KeyPool(n) == [i \in 1..n |-> KeyName(i)]

RECURSIVE KeySeqs(_)
\* All pools of at most n credentials named k1 or k2, repeats allowed.
KeySeqs(n) ==
    IF n = 0 THEN {<<>>}
    ELSE LET shorter == KeySeqs(n - 1)
         IN  shorter \cup {Append(s, k) : s \in shorter, k \in {"k1", "k2"}}

\* Raw reports the viewer may write in the chain specification: one of a
\* single scalar value, one longer than every limit with multi-byte characters.
SampleReports ==
    {Encode(<<97>>), Encode([i \in 1..(MaxLimit + 1) |-> IF i % 2 = 1 THEN 233 ELSE 97])}

\* What a provider call may come back with: a transport/protocol failure, or a
\* response whose choices each carry an optional text.
Some(t) == [some |-> t]
ChoiceLists ==
    {<<>>, <<None>>, <<Some(TextA)>>, <<Some(TextB)>>,
     <<None, Some(TextA)>>, <<Some(TextA), Some(TextB)>>}
TransportError == [err |-> "transport"]
BuildError == [err |-> "build"]
ProviderResults == {TransportError} \cup {[choices |-> cs] : cs \in ChoiceLists}

\* enum LlmError, as a query result.
ErrApi == [err |-> "Api"]
ErrNoContent == [err |-> "NoContent"]
Ok(t) == [ok |-> t]
IsOk(r) == "ok" \in DOMAIN r
IsErr(r) == "err" \in DOMAIN r

\* const RETRY_DELAYS: [u64; 3]
RETRY_DELAYS == <<10, 30, 65>>

\* A plausible slip: the last choice is read instead of the first.
FirstContentLast(response) ==
    IF response.choices = <<>> THEN ErrNoContent
    ELSE LET c == response.choices[Len(response.choices)]
         IN  IF c = None THEN ErrNoContent ELSE Ok(c.some)

\* response.choices.first().and_then(|c| c.message.content.as_ref()).cloned()
\*     .ok_or(LlmError::NoContent)
FirstContent(response) ==
    IF response.choices = <<>> THEN ErrNoContent
    ELSE LET c == response.choices[1]
         IN  IF c = None THEN ErrNoContent ELSE Ok(c.some)


(***************************************************************************)
(* tracing events: the level, the message's format string and the values   *)
(* interpolated into it.                                                   *)
(***************************************************************************)
Event(level, msg, args) == [level |-> level, msg |-> msg, args |-> args]

\* The handler's name for each tool.
ToolName(k) ==
    CASE k = "feature" -> "plan_feature"
      [] k = "bug_fix" -> "plan_bug_fix"
      [] k = "explanation" -> "explain_code"

\* What the handler and generate_codebase_report log before the viewer runs.
ReceivedEvents(k) ==
    << Event("info", "Received '{}' request for directory: {}", <<ToolName(k)>>),
       Event("info", "Generating report for '{}' using '{}'", <<>>) >>

\* What generate_codebase_report logs when the report has more bytes than
\* the limit.
TruncationEvents(report, limit) ==
    IF Len(report) > limit
    THEN << Event("warn", "Report length ({}) exceeds character limit ({}). Truncating.",
                  <<Len(report), limit>>) >>
    ELSE <<>>

(***************************************************************************)
(* main(): the environment and the start-up of the process.  A value of    *)
(* an environment variable is a sequence of pieces: a comma, a blank, or   *)
(* a word of other characters.                                             *)
(***************************************************************************)
EnvPieces == {",", " ", "k1", "k2"}

RECURSIVE EnvStrings(_)
\* All values of at most n pieces.
EnvStrings(n) ==
    IF n = 0 THEN {<<>>}
    ELSE LET shorter == EnvStrings(n - 1)
         IN  shorter \cup {Append(s, p) : s \in shorter, p \in EnvPieces}

\* The index of the first comma of s, or 0.
FirstComma(s) ==
    IF \E i \in 1..Len(s) : s[i] = ","
    THEN Min({i \in 1..Len(s) : s[i] = ","})
    ELSE 0

RECURSIVE Split(_)
\* str::split(','): the substrings between the commas, at least one.
Split(s) ==
    LET i == FirstComma(s)
    IN  IF i = 0 THEN <<s>>
        ELSE <<SubSeq(s, 1, i - 1)>> \o Split(SubSeq(s, i + 1, Len(s)))

RECURSIVE Trim(_)
\* str::trim: without leading and trailing blanks.
Trim(s) ==
    IF s # <<>> /\ Head(s) = " " THEN Trim(Tail(s))
    ELSE IF s # <<>> /\ s[Len(s)] = " " THEN Trim(SubSeq(s, 1, Len(s) - 1))
    ELSE s

RECURSIVE AsString(_)
\* to_string: the pieces as one String.
AsString(s) == IF s = <<>> THEN "" ELSE Head(s) \o AsString(Tail(s))

\* let api_keys = ...: the keys of GEMINI_API_KEYS, else GEMINI_API_KEY, else
\* a panic.
ApiKeysOf(e) ==
    IF e.GEMINI_API_KEYS # None
    THEN LET parts == Split(e.GEMINI_API_KEYS.some)
             trimmed == [i \in 1..Len(parts) |-> AsString(Trim(parts[i]))]
         IN  [panic |-> FALSE, keys |-> SelectSeq(trimmed, LAMBDA k : k # "")]
    ELSE IF e.GEMINI_API_KEY # None
    THEN [panic |-> FALSE, keys |-> <<AsString(e.GEMINI_API_KEY.some)>>]
    ELSE [panic |-> TRUE, keys |-> <<>>]

\* A plausible slip: the empty key list is not checked for.
NoKeysUnchecked(keys) == FALSE

\* api_keys.is_empty()
NoKeys(keys) == keys = <<>>

\* unwrap_or(200_000)
DefaultTokenCharLimit == 200000

\* TOKEN_CHAR_LIMIT parsed, or the default when unset or not a number.
LimitOf(e) ==
    IF e.TOKEN_CHAR_LIMIT # None /\ "digits" \in DOMAIN e.TOKEN_CHAR_LIMIT.some
    THEN e.TOKEN_CHAR_LIMIT.some.digits
    ELSE DefaultTokenCharLimit

ApiBase == "https://generativelanguage.googleapis.com/v1beta"
DefaultModel == "gemini-2.5-pro"

RECURSIVE Joined(_)
\* The keys of a pool written with commas between them.
Joined(pool) ==
    IF Len(pool) <= 1 THEN pool
    ELSE <<Head(pool), ",">> \o Joined(Tail(pool))

\* An environment main() starts a process with the given pool and limit from.
EnvOf(pool, limit) ==
    [CODEBASE_VIEWER_PATH |-> Some(<<"viewer">>),
     GEMINI_API_KEYS |-> Some(Joined(pool)),
     GEMINI_API_KEY |-> None,
     GEMINI_MODEL |-> None,
     TOKEN_CHAR_LIMIT |-> Some([digits |-> limit])]

\* The environments of the start-up specification.
Envs ==
    [CODEBASE_VIEWER_PATH : {None, Some(<<"viewer">>)},
     GEMINI_API_KEYS : {None} \cup {Some(s) : s \in EnvStrings(MaxEnvLen)},
     GEMINI_API_KEY : {None, Some(<<>>), Some(<<"k1">>)},
     GEMINI_MODEL : {None, Some(<<"m">>)},
     TOKEN_CHAR_LIMIT : {None, Some([digits |-> MaxLimit])}]

(***************************************************************************)
(* State.                                                                  *)
(***************************************************************************)
VARIABLES
    \* struct GeminiClient and Config, shared by every request
    api_keys,          \* the VecDeque behind api_keys: Arc<Mutex<..>>
    api_keys0,         \* the keys GeminiClient::new was given
    mutex,             \* the chain holding api_keys' lock, or 0
    api_base,
    model,
    token_char_limit,
    \* the process
    env,               \* the environment variables main() reads
    process,           \* boot | serving | panicked
    \* one tool request per chain
    pc,                \* where the request's task stands
    kind,              \* which tool: feature | bug_fix | explanation
    prompt,            \* the request text
    raw,               \* the report file as the viewer wrote it
    context,           \* the report handed to the chain
    runs,              \* how often the viewer was started for this request
    rlog,              \* the log events of the handler and the report generator
    stage,             \* 0 before the chain, then 1 or 2
    turn,              \* query()'s arguments: [system, user]
    res1,              \* what the stage-1 query returned
    res2,              \* what the stage-2 query returned
    result,            \* what the tool handler returns
    sent,              \* per stage, the request last dispatched
    \* the running query()
    attempt,           \* the loop index; Len(RETRY_DELAYS) is the final attempt
    api_key,           \* the credential of the current attempt
    prev_key,          \* the credential of this query's previous attempt
    others,            \* whether another caller rotated since this query's last draw
    drawn,             \* credentials drawn by this query
    dispatched,        \* provider calls dispatched by this query
    slept,             \* the delays this query slept, in order
    outcomes,          \* per attempt of this query, what came back
    qres,              \* the query's return value
    qlog,              \* the log events of this query
    \* the rotator harness
    issued,            \* the credentials in the order the rotator issued them
    overlap,           \* whether two harness calls ever ran at the same time
    last,              \* per chain, the inputs of the request it served before
    calls              \* per chain, the provider calls its request has dispatched

shared == <<api_keys, api_keys0, mutex, api_base, model, token_char_limit, env, process>>
request == <<kind, prompt, raw, context, runs, rlog>>
chain == <<stage, turn, res1, res2, result, sent>>
query == <<attempt, api_key, prev_key, others, drawn, dispatched, slept, outcomes, qres,
          qlog>>
harness == <<issued, overlap, last, calls>>
vars == <<shared, pc, request, chain, query, harness>>

NoTurn == [system |-> <<>>, user |-> <<>>]

\* No request in progress, no rotation in progress.
Idle ==
    /\ mutex = 0
    /\ pc = [c \in Chains |-> "idle"]
    /\ kind = [c \in Chains |-> "feature"]
    /\ prompt = [c \in Chains |-> <<>>]
    /\ raw = [c \in Chains |-> <<>>]
    /\ context = [c \in Chains |-> <<>>]
    /\ runs = [c \in Chains |-> 0]
    /\ rlog = [c \in Chains |-> <<>>]
    /\ stage = [c \in Chains |-> 0]
    /\ turn = [c \in Chains |-> NoTurn]
    /\ res1 = [c \in Chains |-> None]
    /\ res2 = [c \in Chains |-> None]
    /\ result = [c \in Chains |-> None]
    /\ sent = [c \in Chains |-> <<<<>>, <<>>>>]
    /\ attempt = [c \in Chains |-> 0]
    /\ api_key = [c \in Chains |-> NoKey]
    /\ prev_key = [c \in Chains |-> NoKey]
    /\ others = [c \in Chains |-> FALSE]
    /\ drawn = [c \in Chains |-> 0]
    /\ dispatched = [c \in Chains |-> 0]
    /\ slept = [c \in Chains |-> <<>>]
    /\ outcomes = [c \in Chains |-> <<>>]
    /\ qres = [c \in Chains |-> None]
    /\ qlog = [c \in Chains |-> <<>>]
    /\ issued = <<>>
    /\ overlap = FALSE
    /\ last = [c \in Chains |-> None]
    /\ calls = [c \in Chains |-> 0]

\* A serving process: main() has run, GeminiClient::new and Config are built
\* and every task is idle.
InitWith(pools, limits) ==
    /\ api_keys0 \in pools
    /\ api_keys = api_keys0
    /\ api_base = ApiBase
    /\ model = DefaultModel
    /\ token_char_limit \in limits
    /\ env = EnvOf(api_keys0, token_char_limit)
    /\ process = "serving"
    /\ Idle

Init == InitWith({KeyPool(n) : n \in 1..MaxPool}, {MaxLimit})

(***************************************************************************)
(* main()                                                                  *)
(***************************************************************************)
\* main() up to serving: the viewer path and the keys are read, an unset path,
\* an unset key source or an empty key list panics; otherwise the client and
\* the configuration are built and the server starts.
Main ==
    /\ process = "boot"
    /\ LET parsed == ApiKeysOf(env)
       IN  IF env.CODEBASE_VIEWER_PATH = None \/ parsed.panic \/ NoKeys(parsed.keys)
           THEN /\ process' = "panicked"
                /\ UNCHANGED <<api_keys, api_keys0, api_base, model, token_char_limit>>
           ELSE /\ process' = "serving"
                /\ api_keys' = parsed.keys
                /\ api_keys0' = parsed.keys
                /\ api_base' = ApiBase
                /\ model' = (IF env.GEMINI_MODEL = None THEN DefaultModel
                             ELSE AsString(env.GEMINI_MODEL.some))
                /\ token_char_limit' = LimitOf(env)
    /\ UNCHANGED <<mutex, env, pc, request, chain, query, harness>>

(***************************************************************************)
(* GeminiClient::get_next_api_key                                          *)
(***************************************************************************)
\* A plausible slip: the pool is used without taking its lock.
LockFree(c) ==
    /\ pc[c] = "lock"
    /\ mutex' = c
    /\ pc' = [pc EXCEPT ![c] = "pop"]
    /\ UNCHANGED <<api_keys, api_keys0, api_base, model, token_char_limit, env, process>>
    /\ UNCHANGED <<request, chain, query, harness>>

\* self.api_keys.lock().unwrap(): blocks while another task holds the lock.
Lock(c) ==
    /\ pc[c] = "lock"
    /\ mutex = 0
    /\ mutex' = c
    /\ pc' = [pc EXCEPT ![c] = "pop"]
    /\ UNCHANGED <<api_keys, api_keys0, api_base, model, token_char_limit, env, process>>
    /\ UNCHANGED <<request, chain, query, harness>>

\* keys.pop_front(): the front credential, or the panic of an empty pool.
PopFront(c) ==
    /\ pc[c] = "pop"
    /\ IF api_keys = <<>>
       THEN /\ pc' = [pc EXCEPT ![c] = "panicked"]
            /\ UNCHANGED <<api_keys, api_key, prev_key, others, drawn>>
       ELSE /\ api_key' = [api_key EXCEPT ![c] = Head(api_keys)]
            /\ prev_key' = [prev_key EXCEPT ![c] = api_key[c]]
            /\ api_keys' = Tail(api_keys)
            /\ others' = [d \in Chains |-> d # c /\ stage[d] > 0 /\ api_key[d] # NoKey]
            /\ drawn' = [drawn EXCEPT ![c] = @ + 1]
            /\ pc' = [pc EXCEPT ![c] = "push"]
    /\ UNCHANGED <<api_keys0, mutex, api_base, model, token_char_limit, env, process>>
    /\ UNCHANGED <<request, chain, harness>>
    /\ UNCHANGED <<attempt, dispatched, slept, outcomes, qres, qlog>>

\* A plausible slip: the popped credential is not put back.
PushedNothing(keys, key) == keys

\* A plausible slip: the popped credential is pushed back at the front.
PushedFront(keys, key) == <<key>> \o keys

\* keys.push_back(key.clone())
Pushed(keys, key) == Append(keys, key)

\* The push_back step of get_next_api_key, under the lock.
PushBackStep(c) ==
    /\ pc[c] = "push"
    /\ api_keys' = Pushed(api_keys, api_key[c])
    /\ pc' = [pc EXCEPT ![c] = "unlock"]
    /\ UNCHANGED <<api_keys0, mutex, api_base, model, token_char_limit, env, process>>
    /\ UNCHANGED <<request, chain, query>>

PushBack(c) == PushBackStep(c) /\ UNCHANGED harness

\* A plausible slip: the guard is kept by the caller with the credential.
UnlockKept(c) ==
    /\ pc[c] = "unlock"
    /\ pc' = [pc EXCEPT ![c] = "build"]
    /\ UNCHANGED <<shared, request, chain, query, harness>>

\* The guard is dropped and the credential returned to the caller.
Unlock(c) ==
    /\ pc[c] = "unlock"
    /\ mutex' = 0
    /\ pc' = [pc EXCEPT ![c] = "build"]
    /\ UNCHANGED <<api_keys, api_keys0, api_base, model, token_char_limit, env, process>>
    /\ UNCHANGED <<request, chain, query, harness>>

(***************************************************************************)
(* GeminiClient::query                                                     *)
(***************************************************************************)
\* The request of an attempt: the model and exactly two messages.
Request(m, t) ==
    [model |-> m,
     messages |-> <<[role |-> "system", content |-> t.system],
                    [role |-> "user", content |-> t.user]>>]

\* Entering query(): nothing drawn, dispatched or slept yet.
QueryEntered(c) ==
    /\ attempt' = [attempt EXCEPT ![c] = 0]
    /\ api_key' = [api_key EXCEPT ![c] = NoKey]
    /\ prev_key' = [prev_key EXCEPT ![c] = NoKey]
    /\ others' = [others EXCEPT ![c] = FALSE]
    /\ drawn' = [drawn EXCEPT ![c] = 0]
    /\ dispatched' = [dispatched EXCEPT ![c] = 0]
    /\ slept' = [slept EXCEPT ![c] = <<>>]
    /\ outcomes' = [outcomes EXCEPT ![c] = <<>>]
    /\ qres' = [qres EXCEPT ![c] = None]
    /\ qlog' = [qlog EXCEPT ![c] = <<>>]

\* A plausible slip: the loop gives up one attempt early.
IsFinalAttemptEarly(a) == a >= Len(RETRY_DELAYS) - 1

\* Whether loop index a is past the scheduled delays: the final attempt.
IsFinalAttempt(a) == a = Len(RETRY_DELAYS)

\* A plausible slip: every retry waits the first delay.
DelayOfFirst(a) == RETRY_DELAYS[1]

\* The delay of the scheduled attempt with loop index a.
DelayOf(a) == RETRY_DELAYS[a + 1]

\* tracing::debug! before the request of an attempt is built.
AttemptEvent(a) ==
    IF IsFinalAttempt(a)
    THEN Event("debug", "Final API request attempt (no retry after this)", <<>>)
    ELSE Event("debug", "API request attempt {} with delay {}s on failure",
               <<a + 1, DelayOf(a)>>)

\* tracing::warn! of a failed scheduled attempt, tracing::error! of a failed
\* final attempt.
FailureEvent(a) ==
    IF IsFinalAttempt(a)
    THEN Event("error", "API request failed after all retries: {}", <<>>)
    ELSE Event("warn", "API request failed on attempt {}: {}. Retrying after {}s",
               <<a + 1, DelayOf(a)>>)

\* A plausible slip: a build error is handled like a failed provider call.
BuildRequestRetrying(c) ==
    /\ pc[c] = "build"
    /\ qlog' = [qlog EXCEPT ![c] = Append(@, AttemptEvent(attempt[c]))]
    /\ \E built \in BOOLEAN :
        IF built
        THEN /\ sent' = [sent EXCEPT ![c][stage[c]] = Request(model, turn[c])]
             /\ dispatched' = [dispatched EXCEPT ![c] = @ + 1]
             /\ pc' = [pc EXCEPT ![c] = "inflight"]
             /\ UNCHANGED <<outcomes, qres, slept>>
        ELSE /\ outcomes' = [outcomes EXCEPT ![c] = Append(@, BuildError)]
             /\ IF attempt[c] = Len(RETRY_DELAYS)
                THEN /\ qres' = [qres EXCEPT ![c] = ErrApi]
                     /\ pc' = [pc EXCEPT ![c] = "ret"]
                     /\ UNCHANGED slept
                ELSE /\ slept' = [slept EXCEPT ![c] = Append(@, RETRY_DELAYS[attempt[c] + 1])]
                     /\ pc' = [pc EXCEPT ![c] = "sleep"]
                     /\ UNCHANGED qres
             /\ UNCHANGED <<sent, dispatched>>
    /\ UNCHANGED <<shared, request, harness>>
    /\ UNCHANGED <<stage, turn, res1, res2, result>>
    /\ UNCHANGED <<attempt, api_key, prev_key, others, drawn>>

\* The messages and the request are built; a build error ends the query,
\* otherwise client.chat().create(request) is dispatched and awaited.
BuildRequestStep(c) ==
    /\ pc[c] = "build"
    /\ qlog' = [qlog EXCEPT ![c] = Append(@, AttemptEvent(attempt[c]))]
    /\ \E built \in BOOLEAN :
        IF built
        THEN /\ sent' = [sent EXCEPT ![c][stage[c]] = Request(model, turn[c])]
             /\ dispatched' = [dispatched EXCEPT ![c] = @ + 1]
             /\ pc' = [pc EXCEPT ![c] = "inflight"]
             /\ UNCHANGED <<outcomes, qres>>
        ELSE /\ outcomes' = [outcomes EXCEPT ![c] = Append(@, BuildError)]
             /\ qres' = [qres EXCEPT ![c] = ErrApi]
             /\ pc' = [pc EXCEPT ![c] = "ret"]
             /\ UNCHANGED <<sent, dispatched>>
    /\ UNCHANGED <<shared, request>>
    /\ UNCHANGED <<stage, turn, res1, res2, result>>
    /\ UNCHANGED <<attempt, api_key, prev_key, others, drawn, slept>>

BuildRequest(c) == BuildRequestStep(c) /\ UNCHANGED harness

\* A plausible slip: a response without content is retried like a failure.
RetriedNoContent(response) ==
    response = TransportError \/ FirstContent(response) = ErrNoContent

\* Whether the provider call came back Err (transport or protocol failure).
Retried(response) == response = TransportError

\* The awaited provider call comes back.
ProviderRespond(c) ==
    /\ pc[c] = "inflight"
    /\ \E response \in ProviderResults :
        /\ outcomes' = [outcomes EXCEPT ![c] = Append(@, response)]
        /\ IF Retried(response)
           THEN IF IsFinalAttempt(attempt[c])
                THEN /\ qlog' = [qlog EXCEPT ![c] = Append(@, FailureEvent(attempt[c]))]
                     /\ qres' = [qres EXCEPT ![c] = ErrApi]
                     /\ pc' = [pc EXCEPT ![c] = "ret"]
                     /\ UNCHANGED slept
                ELSE /\ qlog' = [qlog EXCEPT ![c] = Append(@, FailureEvent(attempt[c]))]
                     /\ slept' = [slept EXCEPT ![c] = Append(@, DelayOf(attempt[c]))]
                     /\ pc' = [pc EXCEPT ![c] = "sleep"]
                     /\ UNCHANGED qres
           ELSE /\ qres' = [qres EXCEPT ![c] = FirstContent(response)]
                /\ pc' = [pc EXCEPT ![c] = "ret"]
                /\ UNCHANGED <<slept, qlog>>
    /\ UNCHANGED <<shared, request, chain, harness>>
    /\ UNCHANGED <<attempt, api_key, prev_key, others, drawn, dispatched>>

\* A plausible slip: a retry reuses the credential of the failed attempt.
WakeNoDraw(c) ==
    /\ pc[c] = "sleep"
    /\ attempt' = [attempt EXCEPT ![c] = @ + 1]
    /\ pc' = [pc EXCEPT ![c] = "build"]
    /\ UNCHANGED <<shared, request, chain, harness>>
    /\ UNCHANGED <<api_key, prev_key, others, drawn, dispatched, slept, outcomes, qres, qlog>>

\* A plausible slip: the final attempt reuses the last scheduled attempt's
\* credential.
WakeFinalNoDraw(c) ==
    /\ pc[c] = "sleep"
    /\ attempt' = [attempt EXCEPT ![c] = @ + 1]
    /\ pc' = [pc EXCEPT ![c] = IF attempt[c] + 1 = Len(RETRY_DELAYS) THEN "build" ELSE "lock"]
    /\ UNCHANGED <<shared, request, chain, harness>>
    /\ UNCHANGED <<api_key, prev_key, others, drawn, dispatched, slept, outcomes, qres, qlog>>

\* A plausible slip: after a sleep the loop starts over from its first attempt.
WakeRestarts(c) ==
    /\ pc[c] = "sleep"
    /\ attempt' = [attempt EXCEPT ![c] = 0]
    /\ pc' = [pc EXCEPT ![c] = "lock"]
    /\ UNCHANGED <<shared, request, chain, harness>>
    /\ UNCHANGED <<api_key, prev_key, others, drawn, dispatched, slept, outcomes, qres, qlog>>

\* sleep(Duration::from_secs(delay)) ends; the loop goes on to its next attempt.
Wake(c) ==
    /\ pc[c] = "sleep"
    /\ attempt' = [attempt EXCEPT ![c] = @ + 1]
    /\ pc' = [pc EXCEPT ![c] = "lock"]
    /\ UNCHANGED <<shared, request, chain, harness>>
    /\ UNCHANGED <<api_key, prev_key, others, drawn, dispatched, slept, outcomes, qres, qlog>>

(***************************************************************************)
(* The tool handlers, generate_codebase_report and the three chains        *)
(***************************************************************************)
\* A plausible slip: a request with the inputs of the one served before is
\* answered with that one's result.
ReceiveCached(c) ==
    /\ pc[c] = "idle"
    /\ \E k \in Kinds, p \in Prompts :
        /\ kind' = [kind EXCEPT ![c] = k]
        /\ prompt' = [prompt EXCEPT ![c] = p]
        /\ rlog' = [rlog EXCEPT ![c] = ReceivedEvents(k)]
        /\ IF last[c] # None /\ last[c].kind = k /\ last[c].prompt = p
           THEN /\ result' = [result EXCEPT ![c] = last[c].result]
                /\ pc' = [pc EXCEPT ![c] = "done"]
                /\ UNCHANGED runs
           ELSE /\ runs' = [runs EXCEPT ![c] = @ + 1]
                /\ pc' = [pc EXCEPT ![c] = "viewer"]
                /\ UNCHANGED result
    /\ UNCHANGED <<shared, raw, context, query, harness>>
    /\ UNCHANGED <<stage, turn, res1, res2, sent>>

\* plan_feature, plan_bug_fix or explain_code is called; the viewer is run.
Receive(c) ==
    /\ pc[c] = "idle"
    /\ \E k \in Kinds, p \in Prompts :
        /\ kind' = [kind EXCEPT ![c] = k]
        /\ prompt' = [prompt EXCEPT ![c] = p]
        /\ rlog' = [rlog EXCEPT ![c] = ReceivedEvents(k)]
    /\ runs' = [runs EXCEPT ![c] = @ + 1]
    /\ pc' = [pc EXCEPT ![c] = "viewer"]
    /\ UNCHANGED <<shared, raw, context, chain, query, harness>>

\* A plausible slip: a failed viewer is run once more before giving up.
ViewerFailRetrying(c) ==
    /\ pc[c] = "viewer"
    /\ IF runs[c] < 2
       THEN /\ runs' = [runs EXCEPT ![c] = @ + 1]
            /\ UNCHANGED <<pc, result>>
       ELSE /\ \E why \in {"execute", "status", "read"} :
                result' = [result EXCEPT ![c] = [err |-> why]]
            /\ pc' = [pc EXCEPT ![c] = "done"]
            /\ UNCHANGED runs
    /\ UNCHANGED <<shared, kind, prompt, raw, context, rlog, query, harness>>
    /\ UNCHANGED <<stage, turn, res1, res2, sent>>

\* The viewer cannot be run, exits non-zero, or its file cannot be read.
ViewerFail(c) ==
    /\ pc[c] = "viewer"
    /\ \E why \in {"execute", "status", "read"} :
        result' = [result EXCEPT ![c] = [err |-> why]]
    /\ pc' = [pc EXCEPT ![c] = "done"]
    /\ UNCHANGED <<shared, request, query, harness>>
    /\ UNCHANGED <<stage, turn, res1, res2, sent>>

\* The report is read and budgeted; the chain starts its stage-1 query.
ViewerDone(c, reports) ==
    /\ pc[c] = "viewer"
    /\ \E report \in reports :
        LET b == Budget(report, token_char_limit) IN
        /\ raw' = [raw EXCEPT ![c] = report]
        /\ context' = [context EXCEPT ![c] = b.s]
        /\ rlog' = [rlog EXCEPT ![c] = @ \o TruncationEvents(report, token_char_limit)]
        /\ IF b.panic
           THEN /\ pc' = [pc EXCEPT ![c] = "panicked"]
                /\ UNCHANGED <<stage, turn, query>>
           ELSE /\ stage' = [stage EXCEPT ![c] = 1]
                /\ turn' = [turn EXCEPT ![c] =
                              [system |-> SystemPrompt1(kind[c]),
                               user |-> UserPrompt1(kind[c], b.s, prompt[c])]]
                /\ QueryEntered(c)
                /\ pc' = [pc EXCEPT ![c] = "lock"]
    /\ UNCHANGED <<shared, kind, prompt, runs, harness>>
    /\ UNCHANGED <<res1, res2, result, sent>>

ViewerOk(c) == ViewerDone(c, SampleReports)

\* A plausible slip: the chain goes on to stage 2 after a failed stage 1.
PropagatesNever(r) == FALSE

\* The ? after the stage-1 query: an Err returns from the chain.
Propagates(r) == IsErr(r)

\* A chain's return value: the stage-2 query's.
ChainResult(r1, r2) == r2

\* query() returns to the chain: stage 1 goes on to stage 2 or fails the
\* chain; stage 2's result is the chain's, which the handler returns.
StageReturn(c) ==
    /\ pc[c] = "ret"
    /\ IF stage[c] = 1
       THEN /\ res1' = [res1 EXCEPT ![c] = qres[c]]
            /\ IF Propagates(qres[c])
               THEN /\ result' = [result EXCEPT ![c] = qres[c]]
                    /\ pc' = [pc EXCEPT ![c] = "done"]
                    /\ UNCHANGED <<stage, turn, res2, query>>
               ELSE /\ stage' = [stage EXCEPT ![c] = 2]
                    /\ turn' = [turn EXCEPT ![c] =
                                  [system |-> SystemPrompt2(kind[c]),
                                   user |-> UserPrompt2(kind[c], context[c], prompt[c],
                                                        IF IsOk(qres[c]) THEN qres[c].ok ELSE <<>>)]]
                    /\ QueryEntered(c)
                    /\ pc' = [pc EXCEPT ![c] = "lock"]
                    /\ UNCHANGED <<res2, result>>
       ELSE /\ res2' = [res2 EXCEPT ![c] = qres[c]]
            /\ result' = [result EXCEPT ![c] = ChainResult(res1[c], qres[c])]
            /\ pc' = [pc EXCEPT ![c] = "done"]
            /\ UNCHANGED <<stage, turn, res1, query>>
    /\ UNCHANGED <<shared, request, sent, harness>>

\* The handler's result goes back to the caller; the task ends.
Responded(c) ==
    /\ pc[c] = "done"
    /\ pc' = [pc EXCEPT ![c] = "idle"]
    /\ kind' = [kind EXCEPT ![c] = "feature"]
    /\ prompt' = [prompt EXCEPT ![c] = <<>>]
    /\ raw' = [raw EXCEPT ![c] = <<>>]
    /\ context' = [context EXCEPT ![c] = <<>>]
    /\ runs' = [runs EXCEPT ![c] = 0]
    /\ rlog' = [rlog EXCEPT ![c] = <<>>]
    /\ stage' = [stage EXCEPT ![c] = 0]
    /\ turn' = [turn EXCEPT ![c] = NoTurn]
    /\ res1' = [res1 EXCEPT ![c] = None]
    /\ res2' = [res2 EXCEPT ![c] = None]
    /\ result' = [result EXCEPT ![c] = None]
    /\ sent' = [sent EXCEPT ![c] = <<<<>>, <<>>>>]
    /\ QueryEntered(c)
    /\ UNCHANGED shared

Respond(c) == Responded(c) /\ UNCHANGED harness

\* The state a call of get_next_api_key() from outside query() starts from.
CallEntered(c) ==
    /\ pc[c] \in {"idle", "build"}
    /\ pc' = [pc EXCEPT ![c] = "lock"]
    /\ api_key' = [api_key EXCEPT ![c] = NoKey]
    /\ drawn' = [drawn EXCEPT ![c] = 0]
    /\ UNCHANGED <<shared, request, chain>>
    /\ UNCHANGED <<attempt, prev_key, others, dispatched, slept, outcomes, qres, qlog>>

\* Another request's query draws a credential (its last draw, if any, has
\* returned): of everything such a request does, only its get_next_api_key()
\* calls touch state shared with this one.
OtherCall(c) == CallEntered(c) /\ UNCHANGED harness

\* The request modelled in full; the other chains are modelled by the
\* rotations they perform.
Requests == {Min(Chains)}
Rotators == Chains \ Requests

Next ==
    \/ \E c \in Requests :
        \/ Receive(c)
        \/ ViewerFail(c)
        \/ ViewerOk(c)
        \/ BuildRequest(c)
        \/ ProviderRespond(c)
        \/ Wake(c)
        \/ StageReturn(c)
        \/ Respond(c)
    \/ \E c \in Rotators :
        OtherCall(c)
    \/ \E c \in Chains :
        \/ Lock(c)
        \/ PopFront(c)
        \/ PushBack(c)
        \/ Unlock(c)

Spec == Init /\ [][Next]_vars

(***************************************************************************)
(* The rotator on its own: every chain is a caller of get_next_api_key(),  *)
(* and the credentials are logged in the order they are issued.            *)
(***************************************************************************)
\* Calls begun so far: those that issued a credential and those about to.
CallsBegun == Len(issued) + Cardinality({c \in Chains : pc[c] \in {"lock", "pop", "push"}})

\* A caller invokes get_next_api_key(), at most MaxCalls times in all.
HarnessCall(c) ==
    /\ CallsBegun < MaxCalls
    /\ CallEntered(c)
    /\ overlap' = (overlap \/ \E d \in Chains \ {c} : pc[d] \in {"lock", "pop", "push", "unlock"})
    /\ UNCHANGED <<issued, last, calls>>

\* The push_back step, with the issued credential logged.
HarnessPushBack(c) ==
    /\ PushBackStep(c)
    /\ issued' = Append(issued, api_key[c])
    /\ UNCHANGED <<overlap, last, calls>>

\* The harness's pools: k1, ..., kn for each n, and every pool of k1 and k2.
HarnessPools == {KeyPool(n) : n \in 1..MaxKeys} \cup (KeySeqs(MaxKeys) \ {<<>>})

InitRot == InitWith(HarnessPools, {MaxLimit})

NextRot ==
    \E c \in Chains :
        \/ HarnessCall(c)
        \/ Lock(c)
        \/ PopFront(c)
        \/ HarnessPushBack(c)
        \/ Unlock(c)

SpecRot == InitRot /\ [][NextRot]_vars

(***************************************************************************)
(* The budgeter on its own: a request whose report is any string of at     *)
(* most MaxReportLen scalar values, under any limit up to MaxLimit.        *)
(***************************************************************************)
AllReports == {Encode(cs) : cs \in CharSeqs(MaxReportLen)}

ViewerAny(c) == ViewerDone(c, AllReports)

InitBudget == InitWith({KeyPool(1)}, 0..MaxLimit)

NextBudget ==
    \E c \in Requests :
        \/ Receive(c)
        \/ ViewerAny(c)

SpecBudget == InitBudget /\ [][NextBudget]_vars

(***************************************************************************)
(* One request at a time, observed: the credentials are logged in the      *)
(* order they are issued, and the inputs and result of each request are    *)
(* kept when it is answered.                                               *)
(***************************************************************************)
\* A request arrives, while fewer than MaxCalls credentials were issued.
AloneReceive(c) ==
    /\ Len(issued) < MaxCalls
    /\ Receive(c)

\* The request is answered; what it asked and got is noted.
AloneRespond(c) ==
    /\ Responded(c)
    /\ last' = [last EXCEPT ![c] =
                   [kind |-> kind[c], prompt |-> prompt[c], result |-> result[c]]]
    /\ UNCHANGED <<issued, overlap, calls>>

InitAlone == InitWith({KeyPool(n) : n \in 1..MaxPool}, {MaxLimit})

NextAlone ==
    \E c \in Requests :
        \/ AloneReceive(c)
        \/ ViewerFail(c)
        \/ ViewerOk(c)
        \/ Lock(c)
        \/ PopFront(c)
        \/ HarnessPushBack(c)
        \/ Unlock(c)
        \/ BuildRequest(c)
        \/ ProviderRespond(c)
        \/ Wake(c)
        \/ StageReturn(c)
        \/ AloneRespond(c)

SpecAlone == InitAlone /\ [][NextAlone]_vars

(***************************************************************************)
(* Start-up: the process from the first line of main(), under any          *)
(* environment, then callers of get_next_api_key() once it serves.         *)
(***************************************************************************)
InitBoot ==
    /\ env \in Envs
    /\ process = "boot"
    /\ api_keys = <<>>
    /\ api_keys0 = <<>>
    /\ api_base = ""
    /\ model = ""
    /\ token_char_limit = 0
    /\ Idle

\* A request's query calls get_next_api_key(): requests are served only once
\* main() has started the server.
BootCall(c) ==
    /\ process = "serving"
    /\ CallsBegun < MaxBootCalls
    /\ HarnessCall(c)

NextBoot ==
    \/ Main
    \/ \E c \in Chains :
        \/ BootCall(c)
        \/ Lock(c)
        \/ PopFront(c)
        \/ HarnessPushBack(c)
        \/ Unlock(c)

SpecBoot == InitBoot /\ [][NextBoot]_vars

(***************************************************************************)
(* Progress: the chains as in Spec, with the provider calls of a request   *)
(* counted, under the fairness the runtime gives: a task that can step     *)
(* does, an awaited provider call comes back, a sleep ends, the holder of  *)
(* the lock finishes its rotation, and a task that finds the lock free     *)
(* again and again gets it.  Arrivals, the viewer and the other chains'    *)
(* calls are under no obligation.  One other chain, calling                *)
(* get_next_api_key() as often and whenever it likes, stands for the       *)
(* chains that contend for the lock.                                       *)
(***************************************************************************)
\* The chains that take part: the request and one contender for the lock.
Contenders == {Min(Rotators)}
LiveChains == Requests \cup Contenders

\* The viewer writes a report of one character: what the report is has no
\* part in whether a chain returns.
LiveViewerOk(c) == ViewerDone(c, {Encode(<<97>>)})

\* A serving process with the largest pool.
InitLive == InitWith({KeyPool(MaxPool)}, {MaxLimit})

\* BuildRequest, with a dispatched provider call counted for the request.
LiveBuildRequest(c) ==
    /\ BuildRequestStep(c)
    /\ calls' = [calls EXCEPT ![c] = IF pc'[c] = "inflight" THEN @ + 1 ELSE @]
    /\ UNCHANGED <<issued, overlap, last>>

\* Respond, with the count of the answered request dropped.
LiveRespond(c) ==
    /\ Responded(c)
    /\ calls' = [calls EXCEPT ![c] = 0]
    /\ UNCHANGED <<issued, overlap, last>>

NextLive ==
    \/ \E c \in Requests :
        \/ Receive(c)
        \/ ViewerFail(c)
        \/ LiveViewerOk(c)
        \/ LiveBuildRequest(c)
        \/ ProviderRespond(c)
        \/ Wake(c)
        \/ StageReturn(c)
        \/ LiveRespond(c)
    \/ \E c \in Contenders :
        OtherCall(c)
    \/ \E c \in LiveChains :
        \/ Lock(c)
        \/ PopFront(c)
        \/ PushBack(c)
        \/ Unlock(c)

Fairness ==
    /\ \A c \in Requests :
        /\ WF_vars(ProviderRespond(c))
        /\ WF_vars(Wake(c))
        /\ WF_vars(LiveBuildRequest(c))
        /\ WF_vars(StageReturn(c))
        /\ SF_vars(Lock(c))
    /\ \A c \in LiveChains :
        /\ WF_vars(PopFront(c))
        /\ WF_vars(PushBack(c))
        /\ WF_vars(Unlock(c))

SpecLive == InitLive /\ [][NextLive]_vars /\ Fairness

(***************************************************************************)
(* Properties of query().  The histories dispatched, drawn, slept and      *)
(* outcomes are those of the query a chain is running or has last run;     *)
(* they stand until the next query is entered.                             *)
(***************************************************************************)
MaxAttempts == Len(RETRY_DELAYS) + 1

MinOf(a, b) == IF a < b THEN a ELSE b

\* Every attempt so far was dispatched and came back as a transport failure.
AllFailed(c) ==
    \A i \in DOMAIN outcomes[c] : outcomes[c][i] = TransportError

\* The query of chain c has returned to its caller.
QueryReturned(c) == pc[c] \in {"ret", "done"} /\ qres[c] # None

\* A response whose first choice carries text.
HasText(r) ==
    "choices" \in DOMAIN r /\ r.choices # <<>> /\ r.choices[1] # None

\* A response without a first choice, or whose first choice has no text.
HasNoText(r) ==
    "choices" \in DOMAIN r /\ (r.choices = <<>> \/ r.choices[1] = None)

\* C1: while every attempt of a query is dispatched and its provider call
\* fails at transport level, the query has slept exactly the scheduled delays
\* of its failed scheduled attempts, in order (10, then 30, then 65), one
\* before each further dispatch and none after the final attempt; and once it
\* has returned it has dispatched exactly Len(RETRY_DELAYS) + 1 attempts and
\* its result is Api.
C1_RetryExhaustion ==
    \A c \in Requests :
        (outcomes[c] # <<>> /\ AllFailed(c)) =>
            /\ slept[c] = SubSeq(RETRY_DELAYS, 1,
                                 MinOf(Len(outcomes[c]), Len(RETRY_DELAYS)))
            /\ dispatched[c] <= MaxAttempts
            /\ pc[c] = "inflight" => dispatched[c] = Len(slept[c]) + 1
            /\ pc[c] = "sleep" => Len(outcomes[c]) <= Len(RETRY_DELAYS)
            /\ QueryReturned(c) =>
                /\ dispatched[c] = MaxAttempts
                /\ Len(outcomes[c]) = MaxAttempts
                /\ slept[c] = RETRY_DELAYS
                /\ qres[c] = ErrApi

\* A query has returned after four transport failures.
C1_Witness ==
    \E c \in Requests :
        /\ pc[c] = "ret"
        /\ outcomes[c] = [i \in 1..MaxAttempts |-> TransportError]
        /\ slept[c] = <<10, 30, 65>>
        /\ qres[c] = ErrApi

\* C2: if attempt K of a query comes back with a first choice that carries
\* text, then K <= Len(RETRY_DELAYS) + 1, every earlier attempt failed, the
\* query has returned exactly that text, and it has dispatched K calls, drawn
\* K credentials and slept K - 1 times: nothing follows attempt K.
C2_EarlySuccess ==
    \A c \in Requests :
        \A K \in DOMAIN outcomes[c] :
            HasText(outcomes[c][K]) =>
                /\ K = Len(outcomes[c])
                /\ K <= MaxAttempts
                /\ \A i \in 1..(K - 1) : outcomes[c][i] = TransportError
                /\ QueryReturned(c)
                /\ qres[c] = Ok(outcomes[c][K].choices[1].some)
                /\ dispatched[c] = K
                /\ drawn[c] = K
                /\ Len(slept[c]) = K - 1

\* A query has returned the text of its third attempt, the first to succeed,
\* whose response carried a second choice as well.
C2_Witness ==
    \E c \in Requests :
        /\ pc[c] = "ret"
        /\ outcomes[c] = <<TransportError, TransportError,
                           [choices |-> <<Some(TextA), Some(TextB)>>]>>
        /\ qres[c] = Ok(TextA)
        /\ dispatched[c] = 3

\* C3: if attempt K of a query comes back at transport level without a first
\* choice, or with a first choice that has no text, the query has returned
\* NoContent with K calls dispatched and K - 1 sleeps: that attempt is the
\* last, whichever attempt it is.
C3_NoContentNotRetried ==
    \A c \in Requests :
        \A K \in DOMAIN outcomes[c] :
            HasNoText(outcomes[c][K]) =>
                /\ K = Len(outcomes[c])
                /\ QueryReturned(c)
                /\ qres[c] = ErrNoContent
                /\ dispatched[c] = K
                /\ drawn[c] = K
                /\ Len(slept[c]) = K - 1

\* A first attempt with an empty choice list has ended a query with NoContent.
C3_Witness ==
    \E c \in Requests :
        /\ pc[c] = "ret"
        /\ outcomes[c] = <<[choices |-> <<>>]>>
        /\ qres[c] = ErrNoContent
        /\ slept[c] = <<>>

(***************************************************************************)
(* Properties of the rotator.                                              *)
(***************************************************************************)
\* The pool GeminiClient::new was given, rotated left by n positions.
Rotated(n) ==
    LET N == Len(api_keys0)
    IN  [i \in 1..N |-> api_keys0[((i - 1 + n) % N) + 1]]

\* Whether seq is a cyclic rotation of the initial pool.
IsRotation(seq) == \E n \in 0..(Len(api_keys0) - 1) : seq = Rotated(n)

\* How often credential k was issued.
TimesIssued(k) == Cardinality({i \in DOMAIN issued : issued[i] = k})

\* How often credential k occurs in the initial pool.
TimesInPool(k) == Cardinality({i \in DOMAIN api_keys0 : api_keys0[i] = k})

\* C4: when get_next_api_key() is called sequentially on a pool of N
\* credentials, the i-th call (from 0) returns the credential at position
\* i mod N of the initial pool; and after M calls, M a multiple of N, every
\* credential has been returned M/N times for each of its places in the pool
\* and the pool is in its initial order.
C4_RotationFairness ==
    ~overlap =>
        LET N == Len(api_keys0)
            M == Len(issued)
        IN  /\ \A i \in 0..(M - 1) : issued[i + 1] = api_keys0[(i % N) + 1]
            /\ (M % N = 0 /\ \A c \in Chains : pc[c] # "push") =>
                /\ api_keys = api_keys0
                /\ \A i \in 1..N :
                    TimesIssued(api_keys0[i]) = (M \div N) * TimesInPool(api_keys0[i])

\* Six sequential calls on the pool k1, k2, k1 have gone round it twice and
\* left it in its initial order.
C4_Witness ==
    /\ ~overlap
    /\ api_keys0 = <<"k1", "k2", "k1">>
    /\ issued = <<"k1", "k2", "k1", "k1", "k2", "k1">>
    /\ api_keys = api_keys0
    /\ \A c \in Chains : pc[c] # "push"

\* The credentials of the initial pool are pairwise distinct.
DistinctPool ==
    \A i, j \in DOMAIN api_keys0 : i # j => api_keys0[i] # api_keys0[j]

\* C5: on a pool of N pairwise distinct credentials, under every interleaving
\* of concurrent get_next_api_key() calls, any N credentials issued in a row
\* are pairwise distinct: none is issued again before every other one has
\* been issued once.  So K <= N concurrent calls return K distinct
\* credentials.
C5_NoDuplicateIssue ==
    DistinctPool =>
        /\ \A i, j \in DOMAIN issued :
            (i < j /\ j - i < Len(api_keys0)) => issued[i] # issued[j]
        /\ Len(issued) <= Len(api_keys0) =>
            \A c, d \in Chains :
                (c # d /\ pc[c] = "build" /\ pc[d] = "build")
                    => api_key[c] # api_key[d]

\* Every caller has called at the same time as another, each has its
\* credential, and the pool had at least one credential per caller.
C5_Witness ==
    /\ DistinctPool
    /\ overlap
    /\ Len(api_keys0) >= NumChains
    /\ Len(issued) = NumChains
    /\ \A c \in Chains : pc[c] = "build"

\* The pool with the credential a caller has popped and not yet pushed back.
PoolAndHeld ==
    IF \E c \in Chains : pc[c] = "push"
    THEN <<api_key[CHOOSE c \in Chains : pc[c] = "push"]>> \o api_keys
    ELSE api_keys

\* C6 as stated: in every reachable state the pool has its initial length and
\* is a cyclic rotation of the initial sequence.
C6_PoolAlwaysRotation ==
    /\ Len(api_keys) = Len(api_keys0)
    /\ IsRotation(api_keys)

\* C6, amended: in every reachable state in which no caller is between the
\* pop_front and the push_back of get_next_api_key(), the pool has its
\* initial length and is a cyclic rotation of the initial sequence; between
\* the two, at most one caller is there (it holds the lock), the pool is one
\* credential short and is such a rotation without its front, which that
\* caller holds.
C6_PoolRotationOutsideRotate ==
    /\ Cardinality({c \in Chains : pc[c] = "push"}) <= 1
    /\ \A c \in Chains : pc[c] \in {"pop", "push", "unlock"} => mutex = c
    /\ IsRotation(PoolAndHeld)
    /\ (\A c \in Chains : pc[c] # "push") =>
        /\ Len(api_keys) = Len(api_keys0)
        /\ IsRotation(api_keys)
    /\ (\E c \in Chains : pc[c] = "push") =>
        Len(api_keys) = Len(api_keys0) - 1

\* Two chains have both rotated a pool of two credentials, one of them while
\* the request was between two attempts, and the pool is rotated by one.
C6_Witness ==
    /\ api_keys0 = <<"k1", "k2">>
    /\ api_keys = <<"k2", "k1">>
    /\ mutex = 0
    /\ \E c \in Requests : attempt[c] = 1 /\ others[c] /\ pc[c] = "lock"

(***************************************************************************)
(* Properties of the credentials a query uses.                             *)
(***************************************************************************)
\* The credential after k in the rotation order of the initial pool.
Successor(k) ==
    LET N == Len(api_keys0)
        i == CHOOSE j \in 1..N : api_keys0[j] = k
    IN  api_keys0[(i % N) + 1]

\* Attempt attempt[c] + 1 of c's query has drawn its credential.
HasDrawn(c) ==
    pc[c] \in {"push", "unlock", "build", "inflight", "sleep", "ret"}

\* Every attempt is dispatched with the one credential drawn for it.
OneDrawPerAttempt(c) ==
    /\ dispatched[c] <= drawn[c]
    /\ drawn[c] <= dispatched[c] + 1
    /\ HasDrawn(c) => drawn[c] = attempt[c] + 1 /\ api_key[c] # NoKey
    /\ pc[c] \in {"lock", "pop"} => drawn[c] = attempt[c]
    /\ pc[c] = "inflight" => dispatched[c] = attempt[c] + 1
    /\ drawn[c] >= 2 => prev_key[c] # NoKey

\* A draw that no other caller's rotation precedes since this query's last
\* draw yields the credential after the last one in rotation order.
DrawsNextInOrder(c) ==
    (pc[c] = "pop" /\ pc'[c] = "push" /\ api_key[c] # NoKey /\ ~others[c])
        => /\ api_key'[c] = Successor(api_key[c])
           /\ prev_key'[c] = api_key[c]

\* C7: every attempt of a query, scheduled or final, draws exactly one
\* credential before it is dispatched, and when no other caller rotates in
\* between, an attempt's credential is the one after the previous attempt's
\* in rotation order.
C7_FreshCredentialPerAttempt ==
    /\ [](\A c \in Requests : OneDrawPerAttempt(c))
    /\ [][\A c \in Requests : DrawsNextInOrder(c)]_vars

\* With the pool k1, k2 a query has failed once with k1, then succeeded with
\* k2 and returned the text.
C7_Witness ==
    \E c \in Requests :
        /\ api_keys0 = <<"k1", "k2">>
        /\ pc[c] = "ret"
        /\ prev_key[c] = "k1"
        /\ api_key[c] = "k2"
        /\ ~others[c]
        /\ outcomes[c] = <<TransportError, [choices |-> <<Some(TextA)>>]>>
        /\ dispatched[c] = 2
        /\ qres[c] = Ok(TextA)

(***************************************************************************)
(* Properties of the chains.                                               *)
(***************************************************************************)
\* The user content of a dispatched request.
UserContent(req) == req.messages[2].content

\* The interpolated strings of a formatted text, in order.
Args(text) ==
    LET parts == SelectSeq(text, LAMBDA p : "arg" \in DOMAIN p)
    IN  [i \in 1..Len(parts) |-> parts[i].arg]

\* C8: in each chain, stage 2 is started only after stage 1 returned text; a
\* failed stage 1 is the chain's result, with no stage-2 request sent and no
\* credential drawn or call dispatched beyond those of stage 1's attempts; a
\* failed stage 2 is the chain's result; and a text the chain returns is the
\* text the stage-2 query returned.
C8_ChainFailurePropagation ==
    \A c \in Requests :
        /\ stage[c] = 2 => IsOk(res1[c])
        /\ IsErr(res1[c]) =>
            /\ pc[c] = "done"
            /\ result[c] = res1[c]
            /\ stage[c] = 1
            /\ res2[c] = None
            /\ sent[c][2] = <<>>
            /\ drawn[c] = Len(outcomes[c])
            /\ dispatched[c] <= Len(outcomes[c])
        /\ IsErr(res2[c]) => pc[c] = "done" /\ result[c] = res2[c]
        /\ (pc[c] = "done" /\ IsOk(result[c])) =>
            stage[c] = 2 /\ result[c] = res2[c]

\* An explanation chain has failed in stage 1 and returned that error.
C8_Witness ==
    \E c \in Requests :
        /\ pc[c] = "done"
        /\ kind[c] = "explanation"
        /\ res1[c] = ErrNoContent
        /\ result[c] = ErrNoContent
        /\ res2[c] = None

\* C9: when the stage-1 query returned text A and the stage-2 query text B,
\* the chain's result is B; the user content of every stage-2 request
\* interpolates the report, the request text and A, in that order, and that
\* of every stage-1 request the report and the request text only.
C9_ChainComposition ==
    \A c \in Requests :
        /\ sent[c][1] # <<>> =>
            Args(UserContent(sent[c][1])) = <<context[c], prompt[c]>>
        /\ sent[c][2] # <<>> =>
            /\ IsOk(res1[c])
            /\ Args(UserContent(sent[c][2])) = <<context[c], prompt[c], res1[c].ok>>
            /\ Contains(UserContent(sent[c][2]), res1[c].ok)
        /\ (pc[c] = "done" /\ IsOk(res1[c]) /\ IsOk(res2[c])) =>
            result[c] = res2[c]

\* A feature chain got "A" from stage 1 and "B" from stage 2: it returns "B",
\* having sent "A" in stage 2.
C9_Witness ==
    \E c \in Requests :
        /\ pc[c] = "done"
        /\ kind[c] = "feature"
        /\ res1[c] = Ok(TextA)
        /\ res2[c] = Ok(TextB)
        /\ result[c] = Ok(TextB)
        /\ Contains(UserContent(sent[c][2]), TextA)

(***************************************************************************)
(* Properties of the budgeter.                                             *)
(***************************************************************************)
\* generate_codebase_report has read and budgeted the report of request c.
Budgeted(c) == stage[c] >= 1 \/ pc[c] = "panicked"

RECURSIVE Decode(_)
\* The scalar values of a UTF-8 string.
Decode(s) ==
    IF s = <<>> THEN <<>>
    ELSE LET b == s[1]
             n == IF b < 128 THEN 1 ELSE IF b < 224 THEN 2 ELSE IF b < 240 THEN 3 ELSE 4
             cp == IF n = 1 THEN b
                   ELSE IF n = 2 THEN (b - 192) * 64 + (s[2] - 128)
                   ELSE IF n = 3 THEN (b - 224) * 4096 + (s[2] - 128) * 64 + (s[3] - 128)
                   ELSE (b - 240) * 262144 + (s[2] - 128) * 4096
                        + (s[3] - 128) * 64 + (s[4] - 128)
         IN  <<cp>> \o Decode(SubSeq(s, n + 1, Len(s)))

\* C10: a report of at most token_char_limit scalar values comes out of the
\* budgeter unchanged, with no marker, also when it has more bytes than that.
C10_BudgetUnchanged ==
    \A c \in Requests :
        (Budgeted(c) /\ Len(Decode(raw[c])) <= token_char_limit) =>
            /\ pc[c] # "panicked"
            /\ context[c] = raw[c]

\* A report of two scalar values and five bytes has passed a limit of two.
C10_Witness ==
    \E c \in Requests :
        /\ Budgeted(c)
        /\ token_char_limit = 2
        /\ Decode(raw[c]) = <<8364, 233>>
        /\ Len(raw[c]) = 5
        /\ context[c] = raw[c]

\* The first n scalar values of a UTF-8 string, encoded.
CharPrefix(s, n) == Encode(SubSeq(Decode(s), 1, n))

\* C11: a report of more than token_char_limit scalar values comes out of the
\* budgeter as its first token_char_limit scalar values followed by the
\* truncation marker; the cut is at a character boundary of the report, and
\* the budgeter does not panic.
C11_BudgetTruncates ==
    \A c \in Requests :
        (Budgeted(c) /\ Len(Decode(raw[c])) > token_char_limit) =>
            /\ pc[c] # "panicked"
            /\ context[c] = CharPrefix(raw[c], token_char_limit) \o TruncationMarker
            /\ IsCharBoundary(raw[c], Len(context[c]) - Len(TruncationMarker))
            /\ Len(Decode(context[c])) = token_char_limit + Len(TruncationMarker)

\* A report of three scalar values, the second of them four bytes long and
\* lying across byte 2, was cut after two scalar values under a limit of two.
C11_Witness ==
    \E c \in Requests :
        /\ Budgeted(c)
        /\ token_char_limit = 2
        /\ Decode(raw[c]) = <<97, 128512, 233>>
        /\ context[c] = Encode(<<97, 128512>>) \o TruncationMarker

\* C12 as stated: the report handed to the chain has at most token_char_limit
\* scalar values, whatever the raw report and the limit.
C12_BoundedReport ==
    \A c \in Requests :
        (Budgeted(c) /\ pc[c] # "panicked") =>
            Len(Decode(context[c])) <= token_char_limit

\* C12, amended: the report handed to the chain, which is the one the stage-1
\* prompt interpolates, has at most token_char_limit scalar values of the raw
\* report, followed, when the raw report had more, by the truncation marker:
\* at most token_char_limit + Len(TruncationMarker) scalar values in all, and
\* at most token_char_limit when nothing was cut.
C12_BoundedReportPlusMarker ==
    \A c \in Requests :
        (Budgeted(c) /\ pc[c] # "panicked") =>
            LET n == Len(Decode(raw[c]))
                m == Len(Decode(context[c]))
            IN  /\ Args(turn[c].user)[1] = context[c]
                /\ m <= token_char_limit + Len(TruncationMarker)
                /\ n <= token_char_limit => m = n
                /\ n > token_char_limit => m = token_char_limit + Len(TruncationMarker)

\* A report of three scalar values was budgeted under a limit of one and went
\* into the stage-1 prompt with 1 + 45 scalar values.
C12_Witness ==
    \E c \in Requests :
        /\ Budgeted(c)
        /\ token_char_limit = 1
        /\ Len(Decode(raw[c])) = 3
        /\ Len(Decode(context[c])) = 46
        /\ Contains(turn[c].user, context[c])

(***************************************************************************)
(* Properties of query()'s failures.                                       *)
(***************************************************************************)
\* C13: if the messages or the request of attempt K of a query cannot be
\* built, the query has returned Api at once: attempt K dispatched no
\* provider call, no sleep follows it and no attempt follows it; only the
\* K - 1 earlier attempts were dispatched and slept after.
C13_BuildFailureNotRetried ==
    \A c \in Requests :
        \A K \in DOMAIN outcomes[c] :
            outcomes[c][K] = BuildError =>
                /\ K = Len(outcomes[c])
                /\ K <= MaxAttempts
                /\ QueryReturned(c)
                /\ qres[c] = ErrApi
                /\ drawn[c] = K
                /\ dispatched[c] = K - 1
                /\ slept[c] = SubSeq(RETRY_DELAYS, 1, K - 1)
                /\ \A i \in 1..(K - 1) : outcomes[c][i] = TransportError

\* The second attempt of a query failed to build its request after the first
\* had failed at transport level: one call dispatched, one sleep, Api.
C13_Witness ==
    \E c \in Requests :
        /\ pc[c] = "ret"
        /\ outcomes[c] = <<TransportError, BuildError>>
        /\ dispatched[c] = 1
        /\ slept[c] = <<10>>
        /\ qres[c] = ErrApi

\* C14: the transport failure of a scheduled attempt (one of the first
\* Len(RETRY_DELAYS)) is never what a query returns: after it the query has
\* no result yet and goes on; and a query that has returned on a transport
\* failure has made Len(RETRY_DELAYS) + 1 attempts, all of them failed at
\* transport level, slept every scheduled delay, and returns Api.
C14_TransientOnlyOnExhaustion ==
    \A c \in Requests :
        /\ \A K \in DOMAIN outcomes[c] :
            (outcomes[c][K] = TransportError /\ K <= Len(RETRY_DELAYS)
                /\ K = Len(outcomes[c])) =>
                    /\ qres[c] = None
                    /\ pc[c] \in {"sleep", "lock", "pop", "push", "unlock",
                                 "build", "inflight"}
                    /\ attempt[c] <= K
        /\ (QueryReturned(c) /\ outcomes[c] # <<>>
                /\ outcomes[c][Len(outcomes[c])] = TransportError) =>
                    /\ Len(outcomes[c]) = MaxAttempts
                    /\ AllFailed(c)
                    /\ slept[c] = RETRY_DELAYS
                    /\ qres[c] = ErrApi

\* A chain has ended in stage 1 on the Api failure of the fourth attempt.
C14_Witness ==
    \E c \in Requests :
        /\ pc[c] = "done"
        /\ stage[c] = 1
        /\ Len(outcomes[c]) = MaxAttempts
        /\ outcomes[c][MaxAttempts] = TransportError
        /\ result[c] = ErrApi

(***************************************************************************)
(* Properties of start-up.                                                 *)
(***************************************************************************)
\* The configured key source yields no key: GEMINI_API_KEYS, when set, has
\* nothing but commas and blanks; when it is unset, GEMINI_API_KEY is unset.
YieldsNoKey(e) ==
    IF e.GEMINI_API_KEYS # None
    THEN \A i \in DOMAIN e.GEMINI_API_KEYS.some :
            e.GEMINI_API_KEYS.some[i] \in {",", " "}
    ELSE e.GEMINI_API_KEY = None

\* C15 as stated: the pool of a serving process is never empty, main() does
\* not get to serving when the key source yields no key, and no
\* get_next_api_key() call panics.
C15_PoolNeverEmpty ==
    /\ process = "serving" => api_keys # <<>>
    /\ YieldsNoKey(env) => process # "serving"
    /\ \A c \in Chains : pc[c] # "panicked"

\* C15, amended: the pool of a serving process is never empty while the lock
\* is free nor when a caller pops: it is empty only between the pop_front and the
\* push_back of a caller rotating a pool of one credential, under the lock;
\* main() does not get to serving when the key source yields no key; and no
\* get_next_api_key() call panics.
C15_PoolNeverEmptyAtPop ==
    /\ process = "serving" =>
        /\ api_keys0 # <<>>
        /\ PoolAndHeld # <<>>
        /\ api_keys = <<>> =>
            \E c \in Chains : pc[c] = "push" /\ mutex = c /\ Len(api_keys0) = 1
    /\ (process = "serving" /\ mutex = 0) => api_keys # <<>>
    /\ \A c \in Chains : pc[c] = "pop" => api_keys # <<>>
    /\ YieldsNoKey(env) => process # "serving"
    /\ process # "serving" => \A c \in Chains : pc[c] = "idle"
    /\ \A c \in Chains : pc[c] # "panicked"

\* A process started with GEMINI_API_KEYS = " ,k1" serves with the pool k1,
\* and a second get_next_api_key() call is about to pop it again.
C15_Witness ==
    /\ env.GEMINI_API_KEYS = Some(<<" ", ",", "k1">>)
    /\ process = "serving"
    /\ api_keys = <<"k1">>
    /\ issued = <<"k1">>
    /\ \E c \in Chains : pc[c] = "pop"

(***************************************************************************)
(* Properties of the handlers.                                             *)
(***************************************************************************)
\* The errors of generate_codebase_report.
ViewerErrors == {[err |-> why] : why \in {"execute", "status", "read"}}

\* C16: a request whose viewer could not be run, exited non-zero or left no
\* readable file returns that error with the viewer started once, no chain
\* started, no prompt built, no credential drawn and no provider call made;
\* and the viewer is never started a second time for a request.
C16_ViewerFailureAborts ==
    \A c \in Requests :
        /\ runs[c] <= 1
        /\ pc[c] = "viewer" => runs[c] = 1 /\ result[c] = None
        /\ result[c] \in ViewerErrors =>
            /\ pc[c] = "done"
            /\ runs[c] = 1
            /\ stage[c] = 0
            /\ turn[c] = NoTurn
            /\ context[c] = <<>>
            /\ drawn[c] = 0
            /\ dispatched[c] = 0
            /\ outcomes[c] = <<>>
            /\ sent[c] = <<<<>>, <<>>>>
            /\ res1[c] = None /\ res2[c] = None

\* A bug-fix request has ended on a viewer that exited non-zero.
C16_Witness ==
    \E c \in Requests :
        /\ pc[c] = "done"
        /\ kind[c] = "bug_fix"
        /\ result[c] = [err |-> "status"]
        /\ runs[c] = 1
        /\ drawn[c] = 0

\* The query's last log event is a warning or an error: it was emitted after
\* the last attempt's debug event, so for the outcome of that attempt.
FailureLogged(log) ==
    log # <<>> /\ log[Len(log)].level \in {"warn", "error"}

\* C17: every query that has returned a failure has logged a warning or an
\* error for it, and so has every request whose viewer failed.
C17_NoSilentFailure ==
    \A c \in Requests :
        /\ (QueryReturned(c) /\ IsErr(qres[c])) => FailureLogged(qlog[c])
        /\ result[c] \in ViewerErrors => FailureLogged(rlog[c])

(***************************************************************************)
(* Properties of the lock.                                                 *)
(***************************************************************************)
\* C19: the lock is held only by a caller inside get_next_api_key(), between
\* taking it and returning; a chain that is building a request, awaiting a
\* provider call, sleeping or returning does not hold it; so a caller waiting
\* for the lock either can take it or waits for a holder that can finish its
\* rotation: no state is a deadlock on the lock.
C19_LockScope ==
    /\ \A c \in Chains :
        /\ mutex = c <=> pc[c] \in {"pop", "push", "unlock"}
        /\ pc[c] \in {"build", "inflight", "sleep", "ret", "done", "viewer"} => mutex # c
        /\ pc[c] = "lock" =>
            \/ mutex = 0 /\ ENABLED Lock(c)
            \/ /\ mutex \in Chains \ {c}
               /\ ENABLED (PopFront(mutex) \/ PushBack(mutex) \/ Unlock(mutex))
    /\ mutex \in Chains \cup {0}

\* While the request awaits a provider call, another caller holds the lock
\* and rotates the pool.
C19_Witness ==
    \E c \in Requests, d \in Rotators :
        /\ pc[c] = "inflight"
        /\ mutex = d
        /\ pc[d] = "push"

(***************************************************************************)
(* Properties of a request from its arrival to its answer.                 *)
(***************************************************************************)
\* Nothing of an earlier request is held by an idle handler.
Blank(c) ==
    /\ runs[c] = 0
    /\ raw[c] = <<>> /\ context[c] = <<>>
    /\ stage[c] = 0 /\ turn[c] = NoTurn
    /\ res1[c] = None /\ res2[c] = None /\ result[c] = None
    /\ sent[c] = <<<<>>, <<>>>>
    /\ drawn[c] = 0 /\ dispatched[c] = 0 /\ outcomes[c] = <<>>

\* C18: every request starts from nothing, starts the viewer exactly once,
\* runs the stage-1 query only on that run's report and the stage-2 query
\* only after the stage-1 query returned text; a request answered with text
\* has run the viewer once and dispatched both stages itself, also when the
\* request served before it had the same inputs.
C18_PerRequestOrdering ==
    \A c \in Requests :
        /\ pc[c] = "idle" => Blank(c)
        /\ pc[c] # "idle" => runs[c] = 1
        /\ pc[c] = "viewer" => stage[c] = 0 /\ drawn[c] = 0 /\ sent[c] = <<<<>>, <<>>>>
        /\ stage[c] = 1 => res1[c] = None \/ pc[c] = "done"
        /\ sent[c][1] # <<>> =>
            /\ stage[c] >= 1
            /\ Args(UserContent(sent[c][1]))[1] = context[c]
        /\ stage[c] = 2 => IsOk(res1[c]) /\ sent[c][1] # <<>>
        /\ sent[c][2] # <<>> => stage[c] = 2 /\ IsOk(res1[c])
        /\ dispatched[c] >= 1 => sent[c][stage[c]] # <<>>
        /\ (pc[c] = "done" /\ IsOk(result[c])) =>
            /\ runs[c] = 1
            /\ sent[c][1] # <<>> /\ sent[c][2] # <<>>
            /\ IsOk(res1[c]) /\ res2[c] = result[c]
            /\ dispatched[c] >= 1

\* A feature request is answered with text after its own viewer run and both
\* stages, though the request served just before had the same inputs and was
\* answered with text too.
C18_Witness ==
    \E c \in Requests :
        /\ last[c] # None
        /\ last[c].kind = "feature" /\ last[c].prompt = prompt[c]
        /\ IsOk(last[c].result)
        /\ kind[c] = "feature"
        /\ pc[c] = "done"
        /\ IsOk(result[c])
        /\ runs[c] = 1
        /\ sent[c][1] # <<>> /\ sent[c][2] # <<>>

\* seq rotated left by n positions.
RotatedLeft(seq, n) ==
    [i \in 1..Len(seq) |-> seq[((i - 1 + n) % Len(seq)) + 1]]

\* The pool when the query of the only running chain c was entered: the
\* initial pool rotated once per credential issued before.
EntryPool(c) == Rotated((Len(issued) - drawn[c]) % Len(api_keys0))

\* What a query that has returned after a attempts leaves behind: a
\* credentials drawn, in pool order, and the pool rotated by a positions.
QueryFrame(c) ==
    LET a == Len(outcomes[c])
    IN  /\ a >= 1 /\ a <= MaxAttempts
        /\ drawn[c] = a
        /\ Len(issued) >= a
        /\ \A i \in 1..a :
            issued[Len(issued) - a + i] = RotatedLeft(EntryPool(c), i - 1)[1]
        /\ api_keys = RotatedLeft(EntryPool(c), a)
        /\ mutex = 0

\* C20: a query run alone that has returned after a attempts, the attempt
\* whose request failed to build included, has drawn a credentials and left
\* the pool it found rotated by a positions, whatever it returned; the pool
\* it finds is the initial pool rotated once per earlier draw; and the base
\* URL, the model and the limit never change.
C20_QueryFrame ==
    /\ [](\A c \in Requests :
            /\ (pc[c] = "lock" /\ drawn[c] = 0) =>
                api_keys = Rotated(Len(issued) % Len(api_keys0))
            /\ pc[c] = "ret" => QueryFrame(c))
    /\ [](api_base = ApiBase /\ model = DefaultModel)
    /\ [][api_base' = api_base /\ model' = model /\ api_keys0' = api_keys0
            /\ token_char_limit' = token_char_limit]_vars

\* On the pool k1, k2 the first query of a process has returned NoContent on
\* its third attempt: three credentials drawn, the pool rotated by one.
C20_Witness ==
    \E c \in Requests :
        /\ pc[c] = "ret"
        /\ api_keys0 = <<"k1", "k2">>
        /\ issued = <<"k1", "k2", "k1">>
        /\ drawn[c] = 3
        /\ qres[c] = ErrNoContent
        /\ api_keys = <<"k2", "k1">>

(***************************************************************************)
(* Termination.                                                            *)
(***************************************************************************)
\* The chain of request c is inside a query().
InQuery(c) ==
    stage[c] >= 1 /\ pc[c] \in {"lock", "pop", "push", "unlock", "build", "inflight", "sleep"}

\* The chain of request c has started and not returned.
InChain(c) == stage[c] >= 1 /\ pc[c] # "done"

=============================================================================
